---- MODULE Spec2Model ----
(***************************************************************************)
(* Document controller of ndxCraft (App.tsx) together with the shadow      *)
(* persistence store it talks to (db.go / app.go).                         *)
(*                                                                         *)
(* One action is one synchronous run of JavaScript: an event handler up to *)
(* its first await, or the continuation of an await up to the next one,    *)
(* followed by the React commit it causes (render, effect cleanups,        *)
(* effects, and the re-render the isDirty effect schedules).  A bound Go   *)
(* method runs in its own goroutine, so the execution of a call on the Go  *)
(* side is an action of its own, between the send and the continuation.    *)
(* A call that is not awaited (the timer's SaveShadowFile) stays in        *)
(* `inflight` until Go runs it; calls in flight run in any order.          *)
(*                                                                         *)
(* User commands (save, open, drop, discard, the dialog's buttons) are     *)
(* taken one at a time: the dialogs are modal and a command's calls take   *)
(* milliseconds.  Edits, timers and the process ending interleave with a   *)
(* command at every await.                                                 *)
(*                                                                         *)
(* SaveAppState("lastFile", ...) is applied when the effect sends it; the  *)
(* cursor position, the project root prompt of handleOpen and the git icon *)
(* lookups of the startup effect touch no state modelled here.             *)
(*                                                                         *)
(* A file path is the sequence of its segments: path.includes('/') is      *)
(* Len(path) > 1 and "content/" + path is <<"content">> \o path.           *)
(***************************************************************************)
EXTENDS Integers, FiniteSets, Sequences, TLC

VARIABLES
    content,              \* useState content
    savedContent,         \* useState savedContent
    fileName,             \* useState fileName
    isDirty,              \* useState isDirty
    pendingFileToOpen,    \* useState pendingFileToOpen
    isUnsavedDialogOpen,  \* useState isUnsavedDialogOpen
    timers,               \* pending setTimeout callbacks of the shadow effect
    inflight,             \* SaveShadowFile calls sent by a timer, not yet run by Go
    shadow_files,         \* table shadow_files: rows (path, content, is_dirty)
    disk,                 \* files on disk: path -> text, or NoFile
    lastFile,             \* app_state row "lastFile"
    pc,                   \* where the one asynchronous handler in progress waits
    call,                 \* its closure and local variables
    edits,                \* edits since the debounce timer last fired (observer)
    ev,                   \* what the last step did (observer)
    proc,                 \* the Go process: down, inside InitDB, or up
    files,                \* settings.db, settings.db.bak, settings.db.corrupt
    conn,                 \* db.conn: none (db == nil), open, closed or nil
    checkPc,              \* where the corruption check effect waits
    readPc,               \* whether the startup effect has read the store
    ret,                  \* what the last call into Go of the check returned
    boot,                 \* what InitDB found at the last start (observer)
    lineage,              \* how settings.db came to be (observer)
    gev,                  \* what the last step of the guard did (observer)
    iframeLoaded,         \* Preview: useState iframeLoaded
    isVisualEditEnabled,  \* App: useState, the Preview's isEditing
    activeEditor,         \* App: useState, "code" or "visual"
    cursorOffset,         \* the Preview's cursorOffset
    toFrame,              \* messages posted to the iframe, not yet handled
    toParent,             \* messages posted by the iframe, not yet handled
    frame,                \* the iframe's document
    markerTimer,          \* the 50 ms timer of the initial sync is pending
    readySeen,            \* 'preview-ready' has been handled (observer)
    cev,                  \* what the last step of the channel did (observer)
    tree,                 \* the nodes under the iframe's body, in document order
    caret,                \* the iframe's selection: start container and offset
    contentRef,           \* contentRef.current.split('\n'): the length of each line
    tabPc,                \* where a Tab pressed in the iframe has got to
    sourcePos,            \* the sourcePos of the 'preview-tab' message and closure
    cursor,               \* the code editor's position (lineNumber, column)
    cursorPosRef,         \* cursorPosRef.current
    block,                \* what the last lineToRenderRef returned (observer)
    tev,                  \* what the last step of the translator did (observer)
    written,              \* per path, the last shadow write not cleared (observer)
    got,                  \* what the last GetShadowFile returned (observer)
    blockText,            \* LeftSidebar: the content prop
    given,                \* the content before the first move (observer)
    firstMove,            \* the first handleMove(index, direction) (observer)
    secondMove,           \* the second handleMove(index, direction) (observer)
    threw                 \* the last handleMove ended in a TypeError (observer)

controller == <<content, savedContent, fileName, isDirty, pendingFileToOpen,
                isUnsavedDialogOpen, timers, inflight, shadow_files, disk,
                lastFile, pc, call, edits, ev>>

guard == <<proc, files, conn, checkPc, readPc, ret, boot, lineage, gev>>

channel == <<iframeLoaded, isVisualEditEnabled, activeEditor, cursorOffset,
             toFrame, toParent, frame, markerTimer, readySeen, cev>>

translator == <<tree, caret, contentRef, tabPc, sourcePos, cursor,
                cursorPosRef, block, tev>>

client == <<written, got>>

outline == <<blockText, given, firstMove, secondMove, threw>>

vars == <<controller, guard, channel, translator, client, outline>>

react == <<content, savedContent, fileName, isDirty>>
dialog == <<pendingFileToOpen, isUnsavedDialogOpen>>
store == <<shadow_files, disk>>

----------------------------------------------------------------------------
(* Values *)

INITIAL_CONTENT == "= Welcome to ndxCraft"

Untitled == <<"untitled.adoc">>

NoPath == <<>>

AbsPath == <<"docs", "a.adoc">>

BareName == <<"b.adoc">>

ContentDir == <<"content">>

\* texts the user types and files hold
Contents == {INITIAL_CONTENT, "X"}

NoFile == "<no file>"

MaxEdits == 2

MaxInFlight == 1

\* performOpenFile: a bare file name is looked up under the content directory
ResolvePath(path) == IF Len(path) = 1 THEN ContentDir \o path ELSE path

\* paths the file tree hands to onFileClick (filepath.Join(dirPath, name))
TreePaths == {AbsPath}

\* handleDrop: files[0].path || files[0].name
DropPaths == {AbsPath}

DropPathsOrNames == {AbsPath, BareName}

\* a call into Go succeeds or fails
Outcomes == BOOLEAN

Succeeds == {TRUE}

\* SelectFile / SelectSaveFile return an absolute path, or "" on cancel
DialogPaths == {AbsPath}

Keys == {AbsPath, BareName, ResolvePath(BareName)}

IsRealAny(f) == f # NoPath

\* if (fileName && fileName !== 'untitled.adoc')
IsReal(f) == f # NoPath /\ f # Untitled

----------------------------------------------------------------------------
(* The store, as db.go executes it *)

Row(path, c, d) == [path |-> path, content |-> c, is_dirty |-> d]

SaveShadowFileAppends(rows, path, c, d) == rows \cup {Row(path, c, d)}

\* INSERT OR REPLACE INTO shadow_files ... (path is the primary key)
SaveShadowFile(rows, path, c, d) ==
    {r \in rows : r.path # path} \cup {Row(path, c, d)}

\* DELETE FROM shadow_files WHERE path = ?
ClearShadowFile(rows, path) == {r \in rows : r.path # path}

\* Database.GetShadowFile + App.GetShadowFile: sql.ErrNoRows gives ("", false)
GetShadowFile(rows, path) ==
    IF \E r \in rows : r.path = path
    THEN LET r == CHOOSE r \in rows : r.path = path
         IN  [ok |-> TRUE, content |-> r.content, isDirty |-> r.is_dirty]
    ELSE [ok |-> TRUE, content |-> "", isDirty |-> FALSE]

ShadowError == [ok |-> FALSE, content |-> "", isDirty |-> FALSE]

----------------------------------------------------------------------------
(* React commit: the two effects of App *)

\* useEffect(() => setIsDirty(content !== savedContent), [content, savedContent])
DirtyEffectStale(c, s) == c # savedContent

DirtyEffect(c, s) == c # s

\* return () => clearTimeout(timer): the timers left after the cleanup
CleanupMissing(ts) == ts

Cleanup(ts) == {}

\* setTimeout(() => SaveShadowFile(fileName, content, isDirty), 1000)
Timer(f, c, d) == [path |-> f, content |-> c, isDirty |-> d]

NoTimer == Timer(NoPath, "", FALSE)

\* Render with state (c, s, f), run the effects whose dependencies changed,
\* and render again when the isDirty effect changed isDirty.
Commit(c, s, f) ==
    LET d == DirtyEffect(c, s) IN
    /\ content' = c
    /\ savedContent' = s
    /\ fileName' = f
    /\ isDirty' = d
    /\ IF <<f, c, d>> # <<fileName, content, isDirty>>
       THEN /\ timers' = Cleanup(timers) \cup
                             (IF IsReal(f) THEN {Timer(f, c, d)} ELSE {})
            /\ lastFile' = IF IsReal(f) THEN f ELSE lastFile
       ELSE UNCHANGED <<timers, lastFile>>

----------------------------------------------------------------------------
(* The store's files, as InitDB and RestoreBackup (db.go) handle them.      *)
(* A file is absent, fails PRAGMA integrity_check, or is a store with its   *)
(* tables; `data` stands for the rows it holds, 0 for none.                 *)

DbPath == "settings.db"

BackupPath == "settings.db.bak"

CorruptPath == "settings.db.corrupt"

StorePaths == {DbPath, BackupPath, CorruptPath}

MaxData == 2

Absent == [kind |-> "absent", data |-> 0]

Garbage == [kind |-> "garbage", data |-> 0]

Store(n) == [kind |-> "db", data |-> n]

\* sql.Open on a path that does not exist, then initTables and InitGitIcons:
\* no row of the application
EmptyStore == Store(0)

\* how a copyFile ends: done, source not readable, or io.Copy fails midway
CopyOutcomes == {"ok", "unreadable", "partial"}

exists(fs, path) == fs[path].kind # "absent"

isCorrupt(fs, path) == fs[path].kind = "garbage"

RenameRemoves(fs, old, new) == [fs EXCEPT ![old] = Absent]

\* os.Rename(old, new): replaces new
Rename(fs, old, new) == [fs EXCEPT ![new] = fs[old], ![old] = Absent]

\* os.Remove(path)
Remove(fs, path) == [fs EXCEPT ![path] = Absent]

copyFileKeepsOld(fs, src, dst, outcome) ==
    IF ~exists(fs, src) \/ outcome = "unreadable"
    THEN [fs |-> fs, err |-> TRUE]
    ELSE IF outcome = "partial"
    THEN [fs |-> [fs EXCEPT ![dst] = Garbage], err |-> TRUE]
    ELSE [fs |-> IF exists(fs, dst) THEN fs ELSE [fs EXCEPT ![dst] = fs[src]],
          err |-> FALSE]

\* os.Stat / os.Open fail and leave dst alone; os.Create truncates dst, and
\* io.Copy fills it or fails
copyFile(fs, src, dst, outcome) ==
    IF ~exists(fs, src) \/ outcome = "unreadable"
    THEN [fs |-> fs, err |-> TRUE]
    ELSE IF outcome = "partial"
    THEN [fs |-> [fs EXCEPT ![dst] = Garbage], err |-> TRUE]
    ELSE [fs |-> [fs EXCEPT ![dst] = fs[src]], err |-> FALSE]

\* Database.HasCorruption
HasCorruption(fs) == exists(fs, CorruptPath)

Returned(ok, val) == [ok |-> ok, val |-> val]

Found(found, copied, fs) ==
    [found |-> found, copied |-> copied, live |-> fs[DbPath],
     bak |-> fs[BackupPath]]

GuardStep(t) == [type |-> t]

----------------------------------------------------------------------------
(* The sync channel between the Preview component and its iframe.           *)
(* An HTML string is the fragments it describes plus whether it is spelled  *)
(* the way the browser serialises a DOM; the DOM is the fragments alone.    *)

MaxQueue == 4

MaxToParent == 2

CursorOffsets == {0, 1}

Frag(c, m, t) == [of |-> c, marker |-> m, typed |-> t]

\* Asciidoctor's output for a document may or may not be in the browser's
\* own spelling (quoting, entities, void elements)
Canonical(c) == c # INITIAL_CONTENT

\* convertToHtml(content) and convertToHtml(content, cursorOffset): the
\* second puts the element with id ndx-cursor-marker at the cursor
convertToHtml(c, m) == [frags |-> <<Frag(c, m, FALSE)>>, canon |-> Canonical(c)]

NoHtml == [frags |-> <<>>, canon |-> TRUE]

\* setting innerHTML parses, reading it serialises
Parse(html) == html.frags

Serialize(dom) == [frags |-> dom, canon |-> TRUE]

Msg(t, html, on, offset, text) ==
    [type |-> t, html |-> html, on |-> on, offset |-> offset, text |-> text]

NoMsg == Msg("none", NoHtml, FALSE, 0, "")

UpdateContent(html) == Msg("update-content", html, FALSE, 0, "")

UpdateCss == Msg("update-css", NoHtml, FALSE, 0, "")

SetEditMode(on) == Msg("set-edit-mode", NoHtml, on, 0, "")

SetCursor(k) == Msg("set-cursor", NoHtml, FALSE, k, "")

FindCursorMarker == Msg("find-cursor-marker", NoHtml, FALSE, 0, "")

PreviewReady == Msg("preview-ready", NoHtml, FALSE, 0, "")

PreviewEditMsg(z) == Msg("preview-edit", NoHtml, FALSE, 0, z)

\* the props and state the Preview's effects depend on
Props(c, l, e, a, k) ==
    [content |-> c, loaded |-> l, editing |-> e, active |-> a, cursor |-> k]

NowProps ==
    Props(content, iframeLoaded, isVisualEditEnabled, activeEditor = "visual",
          cursorOffset)

\* what a step did; for a 'preview-edit' handled, its text and the content
\* it found
ChannelEvent(t, z, was) == [type |-> t, text |-> z, was |-> was]

ChannelStep(t) == ChannelEvent(t, "", "")

Document(phase, dom, editable, last) ==
    [phase |-> phase, dom |-> dom, editable |-> editable, last |-> last]

\* the Preview is mounted, its iframe has not run its script yet
InitChannel ==
    /\ iframeLoaded = FALSE
    /\ isVisualEditEnabled = FALSE
    /\ activeEditor = "code"
    /\ cursorOffset = 0
    /\ toFrame = <<>>
    /\ toParent = <<>>
    /\ frame = Document("loading", <<>>, FALSE, NoMsg)
    /\ markerTimer = FALSE
    /\ readySeen = FALSE
    /\ cev = ChannelStep("step")

----------------------------------------------------------------------------
(* The position translator: the Tab pressed in the iframe, the 'preview-tab' *)
(* message and the code editor's cursor.  The iframe's subtree is the        *)
(* sequence of its nodes in document order; a node names its parent, 0 for   *)
(* the body.  An element tagged with the class data-line-N carries N, a text *)
(* node its length.  A line of the content is its length.                    *)

Body == 0

Min(a, b) == IF a < b THEN a ELSE b

\* lineNum before a tagged element has been found
NoLine == -1

MaxLine == 3

El(parent, line) ==
    [kind |-> "element", parent |-> parent, line |-> line, len |-> 0]

Text(parent, len) ==
    [kind |-> "text", parent |-> parent, line |-> NoLine, len |-> len]

\* rendered documents: two blocks with an untagged span, a block inside a
\* block under the preamble, no tagged block at all, blocks of which the
\* first lines are not tagged
Trees ==
    { << El(Body, 1), Text(1, 2), El(1, NoLine), Text(3, 1),
         El(Body, 3), Text(5, 2) >>,
      << El(Body, 0), El(1, 1), Text(2, 1), El(2, 2), Text(4, 2), Text(2, 1) >>,
      << El(Body, NoLine), Text(1, 2), Text(Body, 1) >>,
      << El(Body, 2), Text(1, 1), El(Body, 2), Text(3, 1) >> }

\* window.getSelection(): no range, or the start of one; inside a text node
\* the offset counts characters, in an element only offset 0 is drawn
NoCaret == [node |-> Body, offset |-> -1]

Carets(t) ==
    {NoCaret} \cup
    {c \in [node : DOMAIN t, offset : 0..2] : c.offset <= t[c.node].len}

\* texts of one, two and three lines
LineTexts == { <<2>>, <<0, 3>>, <<1, 0, 2>> }

\* sourcePos of 'preview-tab': null, or { line, offset }
NoPos == [line |-> NoLine, offset |-> 0]

Pos(line, offset) == [line |-> line, offset |-> offset]

NoBlock == 0

TranslatorEvent(t, pos, was, ref) ==
    [type |-> t, pos |-> pos, was |-> was, ref |-> ref]

TranslatorStep(t) == TranslatorEvent(t, NoPos, NoPos, 0)

InitTranslator ==
    /\ tree = <<>>
    /\ caret = NoCaret
    /\ contentRef = <<2>>
    /\ tabPc = "idle"
    /\ sourcePos = NoPos
    /\ cursor = Pos(1, 1)
    /\ cursorPosRef = 1
    /\ block = NoBlock
    /\ tev = TranslatorStep("step")

----------------------------------------------------------------------------
(* A client of the shadow store: the calls app.go binds, with any arguments *)

NoRecord == [content |-> "<none>", isDirty |-> FALSE, writes |-> 0]

Record(c, d, n) == [content |-> c, isDirty |-> d, writes |-> n]

\* contents a caller passes: the empty text and another
ShadowContents == {"", "X"}

MaxWrites == 2

NotRead == [path |-> NoPath, ok |-> TRUE, content |-> "", isDirty |-> FALSE]

InitClient ==
    /\ written = [k \in Keys |-> NoRecord]
    /\ got = NotRead

----------------------------------------------------------------------------
(* The outline of the left sidebar: a text is the sequence of its           *)
(* characters                                                               *)

NL == <<"\n">>

\* no handleMove yet
NoMove == [index |-> 0, direction |-> "none"]

Move(i, dir) == [index |-> i, direction |-> dir]

\* the sidebar is closed (if (!isOpen) return null)
InitOutline ==
    /\ blockText = <<>>
    /\ given = <<>>
    /\ firstMove = NoMove
    /\ secondMove = NoMove
    /\ threw = FALSE

----------------------------------------------------------------------------
(* Closure and locals of the handler in progress *)

NoCall ==
    [origin |-> "none", path |-> NoPath, fullPath |-> NoPath,
     filePath |-> NoPath, fileName |-> NoPath, content |-> "",
     after |-> NoPath, diskContent |-> "", shadow |-> ShadowError,
     ok |-> TRUE, dirtyAtInvoke |-> FALSE, edited |-> FALSE]

Event(t, c, tm, n) == [type |-> t, call |-> c, timer |-> tm, edits |-> n]

Step(t) == Event(t, NoCall, NoTimer, 0)

InitController ==
    /\ content = INITIAL_CONTENT
    /\ savedContent = INITIAL_CONTENT
    /\ fileName = Untitled
    /\ isDirty = FALSE
    /\ pendingFileToOpen = NoPath
    /\ isUnsavedDialogOpen = FALSE
    /\ timers = {}
    /\ inflight = {}
    /\ shadow_files = {}
    /\ disk = [k \in Keys |->
                 IF k = AbsPath THEN "X"
                 ELSE IF k = ResolvePath(BareName) THEN INITIAL_CONTENT
                 ELSE NoFile]
    /\ lastFile = NoPath
    /\ pc = "init_state"
    /\ call = [NoCall EXCEPT !.origin = "startup"]
    /\ edits = 0
    /\ ev = Step("step")

\* the document controller starts in a process whose store is in order
\* the process is up on a first, empty store
InitUp ==
    /\ proc = "up"
    /\ files = [p \in StorePaths |-> IF p = DbPath THEN EmptyStore ELSE Absent]
    /\ conn = "open"
    /\ checkPc = "done"
    /\ readPc = "done"
    /\ ret = Returned(TRUE, FALSE)
    /\ boot = Found("absent", FALSE, [p \in StorePaths |-> Absent])
    /\ lineage = "first"
    /\ gev = GuardStep("step")

Init ==
    /\ InitController
    /\ InitUp
    /\ InitChannel
    /\ InitTranslator
    /\ InitClient
    /\ InitOutline

----------------------------------------------------------------------------
(* Content mutations.  The editor's onChange, the 'preview-edit' message,   *)
(* the sidebar's onContentChange and handleAIApply all are setContent(text) *)
(* followed by the same commit.                                             *)

SetContent(c) ==
    /\ c # content
    /\ Commit(c, savedContent, fileName)
    /\ call' = IF pc = "idle" THEN call ELSE [call EXCEPT !.edited = TRUE]
    /\ UNCHANGED <<dialog, inflight, store, pc>>

\* <Editor onChange={setContent}> and the other callers of setContent
EditorChange ==
    /\ \E c \in Contents : SetContent(c)
    /\ edits' = IF edits < MaxEdits THEN edits + 1 ELSE edits
    /\ ev' = Step("step")
    /\ UNCHANGED <<guard, channel, translator, client, outline>>

----------------------------------------------------------------------------
(* The debounced shadow write *)

\* the timer callback sends SaveShadowFile and does not await it
TimerFire ==
    /\ \E t \in timers :
         /\ Cardinality(inflight \cup {t}) <= MaxInFlight
         /\ timers' = timers \ {t}
         /\ inflight' = inflight \cup {t}
         /\ ev' = Event("timer_fire", NoCall, t, edits)
    /\ edits' = 0
    /\ UNCHANGED <<react, dialog, store, lastFile, pc, call>>
    /\ UNCHANGED <<guard, channel, translator, client, outline>>

\* Go runs a SaveShadowFile sent by a timer; an error is dropped by the caller
InflightExec(oks) ==
    /\ \E w \in inflight, ok \in oks :
         /\ inflight' = inflight \ {w}
         /\ shadow_files' = IF ok
              THEN SaveShadowFile(shadow_files, w.path, w.content, w.isDirty)
              ELSE shadow_files
    /\ ev' = Step("step")
    /\ UNCHANGED <<react, dialog, timers, disk, lastFile, pc, call, edits>>
    /\ UNCHANGED <<guard, channel, translator, client, outline>>

----------------------------------------------------------------------------
(* handleSave *)

\* what follows a handler that has run to its end: handleUnsavedDialogAction
\* goes on to performOpenFile(pendingFileToOpen), everything else is finished
Finish(c) ==
    IF c.after # NoPath
    THEN /\ pc' = "open_read"
         /\ call' = [c EXCEPT !.path = c.after,
                              !.fullPath = ResolvePath(c.after),
                              !.after = NoPath]
    ELSE /\ pc' = "idle"
         /\ call' = NoCall

\* let filePath = fileName; if untitled, await SelectSaveFile()
StartSave(origin, after) ==
    LET c == [NoCall EXCEPT !.origin = origin, !.after = after,
                            !.fileName = fileName, !.content = content,
                            !.filePath = fileName, !.dirtyAtInvoke = isDirty]
    IN  /\ call' = c
        /\ pc' = IF fileName = Untitled THEN "save_select" ELSE "save_file"
        /\ ev' = Step("step")
        /\ UNCHANGED <<react, timers, inflight, store, lastFile, edits>>

\* toolbar onSave
HandleSave ==
    /\ pc = "idle"
    /\ ~isUnsavedDialogOpen
    /\ StartSave("save", NoPath)
    /\ UNCHANGED dialog
    /\ UNCHANGED <<guard, channel, translator, client, outline>>

HasTargetAlways(filePath) == TRUE

\* if (filePath && filePath !== 'untitled.adoc')
HasTarget(filePath) == filePath # NoPath /\ filePath # Untitled

\* SelectSaveFile resolves: a path, or "" when the user cancels
SaveSelectReturn ==
    /\ pc = "save_select"
    /\ \E p \in DialogPaths \cup {NoPath} :
         IF HasTarget(p)
         THEN /\ pc' = "save_file"
              /\ call' = [call EXCEPT !.filePath = p]
              /\ ev' = Step("step")
         ELSE /\ Finish(call)
              /\ ev' = Event("save_aborted", call, NoTimer, 0)
    /\ UNCHANGED <<react, dialog, timers, inflight, store, lastFile, edits>>
    /\ UNCHANGED <<guard, channel, translator, client, outline>>

\* Go: os.WriteFile(path, content)
SaveFileExec(oks) ==
    /\ pc = "save_file"
    /\ \E ok \in oks :
         /\ disk' = IF ok THEN [disk EXCEPT ![call.filePath] = call.content]
                         ELSE disk
         /\ call' = [call EXCEPT !.ok = ok]
    /\ pc' = "save_file_ret"
    /\ ev' = Step("step")
    /\ UNCHANGED <<react, dialog, timers, inflight, shadow_files, lastFile,
                   edits>>
    /\ UNCHANGED <<guard, channel, translator, client, outline>>

SaveFileReturnIgnoresError ==
    /\ pc = "save_file_ret"
    /\ pc' = "save_shadow"
    /\ call' = call
    /\ ev' = IF call.ok THEN Step("step")
                        ELSE Event("save_failed", call, NoTimer, 0)
    /\ UNCHANGED <<react, dialog, timers, inflight, store, lastFile, edits>>
    /\ UNCHANGED <<guard, channel, translator, client, outline>>

\* await SaveFile(...) resolves or rejects; then SaveShadowFile is sent
SaveFileReturn ==
    /\ pc = "save_file_ret"
    /\ IF call.ok
       THEN /\ pc' = "save_shadow"
            /\ call' = call
            /\ ev' = Step("step")
       ELSE /\ Finish(call)
            /\ ev' = Event("save_failed", call, NoTimer, 0)
    /\ UNCHANGED <<react, dialog, timers, inflight, store, lastFile, edits>>
    /\ UNCHANGED <<guard, channel, translator, client, outline>>

\* Go: SaveShadowFile(filePath, content, false)
SaveShadowExec(oks) ==
    /\ pc = "save_shadow"
    /\ \E ok \in oks :
         /\ shadow_files' = IF ok
              THEN SaveShadowFile(shadow_files, call.filePath, call.content,
                                  FALSE)
              ELSE shadow_files
         /\ call' = [call EXCEPT !.ok = ok]
    /\ pc' = "save_shadow_ret"
    /\ ev' = Step("step")
    /\ UNCHANGED <<react, dialog, timers, inflight, disk, lastFile, edits>>
    /\ UNCHANGED <<guard, channel, translator, client, outline>>

\* setSavedContent(content); setFileName(filePath)
SaveShadowReturn ==
    /\ pc = "save_shadow_ret"
    /\ IF call.ok
       THEN /\ Commit(content, call.content, call.filePath)
            /\ edits' = IF call.filePath # fileName THEN 0 ELSE edits
            /\ ev' = Event("save_done", call, NoTimer, 0)
       ELSE /\ UNCHANGED <<react, timers, lastFile, edits>>
            /\ ev' = Event("save_failed", call, NoTimer, 0)
    /\ Finish(call)
    /\ UNCHANGED <<dialog, inflight, store>>
    /\ UNCHANGED <<guard, channel, translator, client, outline>>

----------------------------------------------------------------------------
(* performOpenFile *)

StartOpen(origin, path) ==
    /\ call' = [NoCall EXCEPT !.origin = origin, !.path = path,
                              !.fullPath = ResolvePath(path),
                              !.fileName = fileName,
                              !.dirtyAtInvoke = isDirty]
    /\ pc' = "open_read"

\* Go: os.ReadFile(fullPath)
OpenReadExec(oks) ==
    /\ pc = "open_read"
    /\ \E ok \in oks :
         call' = IF ok /\ disk[call.fullPath] # NoFile
                 THEN [call EXCEPT !.ok = TRUE,
                                   !.diskContent = disk[call.fullPath]]
                 ELSE [call EXCEPT !.ok = FALSE]
    /\ pc' = "open_read_ret"
    /\ ev' = Step("step")
    /\ UNCHANGED <<react, dialog, timers, inflight, store, lastFile, edits>>
    /\ UNCHANGED <<guard, channel, translator, client, outline>>

\* await ReadFile resolves: setSavedContent(diskContent), GetShadowFile is
\* sent; it rejects: the outer catch alerts and the open is over
OpenReadReturn ==
    /\ pc = "open_read_ret"
    /\ IF call.ok
       THEN /\ Commit(content, call.diskContent, fileName)
            /\ pc' = "open_shadow"
            /\ call' = call
            /\ ev' = Step("step")
       ELSE /\ pc' = "idle"
            /\ call' = NoCall
            /\ ev' = Event("open_failed", call, NoTimer, 0)
            /\ UNCHANGED <<react, timers, lastFile>>
    /\ UNCHANGED <<dialog, inflight, store, edits>>
    /\ UNCHANGED <<guard, channel, translator, client, outline>>

\* Go: GetShadowFile(fullPath)
OpenShadowExec(oks) ==
    /\ pc = "open_shadow"
    /\ \E ok \in oks :
         call' = [call EXCEPT !.shadow =
                     IF ok THEN GetShadowFile(shadow_files, call.fullPath)
                     ELSE ShadowError]
    /\ pc' = "open_shadow_ret"
    /\ ev' = Step("step")
    /\ UNCHANGED <<react, dialog, timers, inflight, store, lastFile, edits>>
    /\ UNCHANGED <<guard, channel, translator, client, outline>>

\* the content performOpenFile sets once the shadow lookup has answered
ReconcileIgnoreShadow(diskContent, shadow) == diskContent

ReconcileIgnoreFlag(diskContent, shadow) ==
    IF shadow.ok THEN shadow.content ELSE diskContent

ReconcileNoFallback(diskContent, shadow) ==
    IF shadow.ok /\ ~shadow.isDirty THEN diskContent ELSE shadow.content

Reconcile(diskContent, shadow) ==
    IF shadow.ok /\ shadow.isDirty THEN shadow.content ELSE diskContent

\* setContent(...); setFileName(path); setIsUnsavedDialogOpen(false);
\* setPendingFileToOpen(null)
OpenShadowReturn ==
    /\ pc = "open_shadow_ret"
    /\ Commit(Reconcile(call.diskContent, call.shadow), savedContent,
              call.path)
    /\ isUnsavedDialogOpen' = FALSE
    /\ pendingFileToOpen' = NoPath
    /\ pc' = "idle"
    /\ call' = NoCall
    /\ edits' = 0
    /\ ev' = Event("open_done", call, NoTimer, 0)
    /\ UNCHANGED <<inflight, store>>
    /\ UNCHANGED <<guard, channel, translator, client, outline>>

\* handleOpenFile: file-tree click (onFileClick) and handleDrop
HandleOpenFile(origin, paths) ==
    /\ pc = "idle"
    /\ ~isUnsavedDialogOpen
    /\ \E path \in paths :
         IF isDirty
         THEN /\ pendingFileToOpen' = path
              /\ isUnsavedDialogOpen' = TRUE
              /\ ev' = Step("step")
              /\ UNCHANGED <<pc, call>>
         ELSE /\ StartOpen(origin, path)
              /\ ev' = Step("step")
              /\ UNCHANGED dialog
    /\ UNCHANGED <<react, timers, inflight, store, lastFile, edits>>
    /\ UNCHANGED <<guard, channel, translator, client, outline>>

FileTreeClick == HandleOpenFile("tree", TreePaths)

HandleDrop(drops) == HandleOpenFile("drop", drops)

----------------------------------------------------------------------------
(* ClearShadowFile, awaited by both discard paths *)

StartClear(origin, after) ==
    /\ call' = [NoCall EXCEPT !.origin = origin, !.after = after,
                              !.fileName = fileName,
                              !.dirtyAtInvoke = isDirty]
    /\ pc' = "clear"

\* Go: ClearShadowFile(fileName)
ClearExec(oks) ==
    /\ pc = "clear"
    /\ \E ok \in oks :
         /\ shadow_files' = IF ok
              THEN ClearShadowFile(shadow_files, call.fileName)
              ELSE shadow_files
         /\ call' = [call EXCEPT !.ok = ok]
    /\ pc' = "clear_ret"
    /\ ev' = Step("step")
    /\ UNCHANGED <<react, dialog, timers, inflight, disk, lastFile, edits>>
    /\ UNCHANGED <<guard, channel, translator, client, outline>>

\* handleUnsavedDialogAction catches a failed clear and opens all the same;
\* handleDiscardChanges lets it reach its own catch, which gives up
ClearReturn ==
    /\ pc = "clear_ret"
    /\ IF call.ok \/ call.origin = "dialog_discard"
       THEN /\ Finish(call)
            /\ ev' = Step("step")
       ELSE /\ pc' = "idle"
            /\ call' = NoCall
            /\ ev' = Event("discard_failed", call, NoTimer, 0)
    /\ UNCHANGED <<react, dialog, timers, inflight, store, lastFile, edits>>
    /\ UNCHANGED <<guard, channel, translator, client, outline>>

----------------------------------------------------------------------------
(* The unsaved-changes dialog *)

\* handleUnsavedDialogAction('save'): await handleSave(); performOpenFile
DialogSave ==
    /\ pc = "idle"
    /\ isUnsavedDialogOpen
    /\ StartSave("dialog_save", pendingFileToOpen)
    /\ UNCHANGED dialog
    /\ UNCHANGED <<guard, channel, translator, client, outline>>

\* handleUnsavedDialogAction('discard')
DialogDiscard ==
    /\ pc = "idle"
    /\ isUnsavedDialogOpen
    /\ IF IsReal(fileName)
       THEN StartClear("dialog_discard", pendingFileToOpen)
       ELSE Finish([NoCall EXCEPT !.origin = "dialog_discard",
                                  !.after = pendingFileToOpen,
                                  !.fileName = fileName,
                                  !.dirtyAtInvoke = isDirty])
    /\ ev' = Step("step")
    /\ UNCHANGED <<react, dialog, timers, inflight, store, lastFile, edits>>
    /\ UNCHANGED <<guard, channel, translator, client, outline>>

\* Cancel button: setIsUnsavedDialogOpen(false)
DialogCancel ==
    /\ pc = "idle"
    /\ isUnsavedDialogOpen
    /\ isUnsavedDialogOpen' = FALSE
    /\ ev' = Step("cancel")
    /\ UNCHANGED <<react, pendingFileToOpen, timers, inflight, store,
                   lastFile, pc, call, edits>>
    /\ UNCHANGED <<guard, channel, translator, client, outline>>

----------------------------------------------------------------------------
(* handleDiscardChanges, after the user has confirmed *)

HandleDiscardChanges ==
    /\ pc = "idle"
    /\ ~isUnsavedDialogOpen
    /\ isDirty
    /\ IF fileName # Untitled
       THEN /\ StartClear("discard", fileName)
            /\ ev' = Step("step")
            /\ UNCHANGED <<react, timers, lastFile>>
       ELSE /\ Commit(INITIAL_CONTENT, INITIAL_CONTENT, fileName)
            /\ ev' = Event("discard_untitled",
                           [NoCall EXCEPT !.origin = "discard",
                                          !.dirtyAtInvoke = isDirty],
                           NoTimer, 0)
            /\ UNCHANGED <<pc, call>>
    /\ UNCHANGED <<dialog, inflight, store, edits>>
    /\ UNCHANGED <<guard, channel, translator, client, outline>>

----------------------------------------------------------------------------
(* handleOpen: the toolbar's file dialog *)

HandleOpen ==
    /\ pc = "idle"
    /\ ~isUnsavedDialogOpen
    /\ pc' = "dlg_select"
    /\ call' = [NoCall EXCEPT !.origin = "dialog", !.fileName = fileName,
                              !.dirtyAtInvoke = isDirty]
    /\ ev' = Step("step")
    /\ UNCHANGED <<react, dialog, timers, inflight, store, lastFile, edits>>
    /\ UNCHANGED <<guard, channel, translator, client, outline>>

\* SelectFile resolves: a path, or "" when the user cancels; ReadFile is sent
DlgSelectReturn ==
    /\ pc = "dlg_select"
    /\ \E p \in DialogPaths \cup {NoPath} :
         IF p # NoPath
         THEN /\ pc' = "dlg_read"
              /\ call' = [call EXCEPT !.path = p, !.filePath = p,
                                      !.fullPath = p]
         ELSE /\ pc' = "idle"
              /\ call' = NoCall
    /\ ev' = Step("step")
    /\ UNCHANGED <<react, dialog, timers, inflight, store, lastFile, edits>>
    /\ UNCHANGED <<guard, channel, translator, client, outline>>

\* Go: os.ReadFile(filePath)
DlgReadExec(oks) ==
    /\ pc = "dlg_read"
    /\ \E ok \in oks :
         call' = IF ok /\ disk[call.filePath] # NoFile
                 THEN [call EXCEPT !.ok = TRUE,
                                   !.diskContent = disk[call.filePath]]
                 ELSE [call EXCEPT !.ok = FALSE]
    /\ pc' = "dlg_read_ret"
    /\ ev' = Step("step")
    /\ UNCHANGED <<react, dialog, timers, inflight, store, lastFile, edits>>
    /\ UNCHANGED <<guard, channel, translator, client, outline>>

\* setContent(text); setFileName(filePath)
DlgReadReturn ==
    /\ pc = "dlg_read_ret"
    /\ IF call.ok
       THEN /\ Commit(call.diskContent, savedContent, call.filePath)
            /\ edits' = 0
            /\ ev' = Event("open_done", call, NoTimer, 0)
       ELSE /\ ev' = Event("open_failed", call, NoTimer, 0)
            /\ UNCHANGED <<react, timers, lastFile, edits>>
    /\ pc' = "idle"
    /\ call' = NoCall
    /\ UNCHANGED <<dialog, inflight, store>>
    /\ UNCHANGED <<guard, channel, translator, client, outline>>

----------------------------------------------------------------------------
(* Process restart and the startup restore effect *)

\* the window closes and the application is started again: component state
\* is constructed anew, timers and unfinished calls are gone, files stay
Restart ==
    /\ content' = INITIAL_CONTENT
    /\ savedContent' = INITIAL_CONTENT
    /\ fileName' = Untitled
    /\ isDirty' = FALSE
    /\ pendingFileToOpen' = NoPath
    /\ isUnsavedDialogOpen' = FALSE
    /\ timers' = {}
    /\ inflight' = {}
    /\ pc' = "init_state"
    /\ call' = [NoCall EXCEPT !.origin = "startup"]
    /\ edits' = 0
    /\ ev' = Step("restart")
    /\ UNCHANGED <<store, lastFile>>
    /\ UNCHANGED <<guard, channel, translator, client, outline>>

\* Go: GetAppState("lastFile")
InitStateExec(oks) ==
    /\ pc = "init_state"
    /\ \E ok \in oks :
         call' = [call EXCEPT !.ok = ok,
                              !.path = IF ok THEN lastFile ELSE NoPath]
    /\ pc' = "init_state_ret"
    /\ ev' = Step("step")
    /\ UNCHANGED <<react, dialog, timers, inflight, store, lastFile, edits>>
    /\ UNCHANGED <<guard, channel, translator, client, outline>>

\* if (lastFile && lastFile !== "") await performOpenFile(lastFile)
InitStateReturn ==
    /\ pc = "init_state_ret"
    /\ IF call.ok /\ call.path # NoPath
       THEN StartOpen("startup", call.path)
       ELSE /\ pc' = "idle"
            /\ call' = NoCall
    /\ ev' = Step("step")
    /\ UNCHANGED <<react, dialog, timers, inflight, store, lastFile, edits>>
    /\ UNCHANGED <<guard, channel, translator, client, outline>>

Handlers(drops, oks) ==
    \/ EditorChange
    \/ TimerFire
    \/ InflightExec(oks)
    \/ HandleSave
    \/ SaveSelectReturn
    \/ SaveFileExec(oks)
    \/ SaveFileReturn
    \/ SaveShadowExec(oks)
    \/ SaveShadowReturn
    \/ FileTreeClick
    \/ HandleDrop(drops)
    \/ OpenReadExec(oks)
    \/ OpenReadReturn
    \/ OpenShadowExec(oks)
    \/ OpenShadowReturn
    \/ ClearExec(oks)
    \/ ClearReturn
    \/ DialogSave
    \/ DialogDiscard
    \/ DialogCancel
    \/ HandleDiscardChanges
    \/ HandleOpen
    \/ DlgSelectReturn
    \/ DlgReadExec(oks)
    \/ DlgReadReturn
    \/ Restart
    \/ InitStateExec(oks)
    \/ InitStateReturn

\* one document on disk; every call into Go may fail
Next == Handlers(DropPaths, Outcomes)

Spec == Init /\ [][Next]_vars

\* the steps of the handler in progress that do not wait for the user: a
\* call that Go has received, the continuation of a call that has returned
Scheduled(oks) ==
    \/ SaveFileExec(oks)
    \/ SaveFileReturn
    \/ SaveShadowExec(oks)
    \/ SaveShadowReturn
    \/ OpenReadExec(oks)
    \/ OpenReadReturn
    \/ OpenShadowExec(oks)
    \/ OpenShadowReturn
    \/ ClearExec(oks)
    \/ ClearReturn
    \/ DlgReadExec(oks)
    \/ DlgReadReturn
    \/ InitStateExec(oks)
    \/ InitStateReturn

\* the document controller when no timer, no call sent by a timer and no
\* step of a handler is held up for ever
SpecFair ==
    /\ Spec
    /\ WF_vars(TimerFire)
    /\ WF_vars(InflightExec(Outcomes))
    /\ WF_vars(Scheduled(Outcomes))

\* two documents, one of them dropped by its bare name; no call fails
NextTwoFiles == Handlers(DropPathsOrNames, Succeeds)

SpecTwoFiles == Init /\ [][NextTwoFiles]_vars

----------------------------------------------------------------------------
(* The integrity guard: InitDB at process start, the corruption check of    *)
(* the frontend and RestoreBackup.  The document controller stands still    *)
(* here; what it and the rest of the application write to the store is      *)
(* StoreWrite.                                                              *)

InitGuard ==
    /\ InitController
    /\ proc = "down"
    /\ files = [p \in StorePaths |-> Absent]
    /\ conn = "none"
    /\ checkPc = "none"
    /\ readPc = "none"
    /\ ret = Returned(TRUE, FALSE)
    /\ boot = Found("absent", FALSE, [p \in StorePaths |-> Absent])
    /\ lineage = "none"
    /\ gev = GuardStep("step")
    /\ InitChannel
    /\ InitTranslator
    /\ InitClient
    /\ InitOutline

\* the frontend is loaded: the effects with no dependencies run
Mount ==
    /\ checkPc' = "has_call"
    /\ readPc' = "pending"

MainMountsEarly ==
    \/ /\ proc = "down"
       /\ proc' = "initdb_guard"
       /\ Mount
       /\ gev' = GuardStep("step")
       /\ UNCHANGED <<files, conn, ret, boot, lineage>>
    \/ /\ proc = "initdb_ret"
       /\ IF ret.ok
          THEN /\ proc' = "up"
               /\ conn' = conn
               /\ gev' = GuardStep("started")
          ELSE /\ proc' = "down"
               /\ conn' = "none"
               /\ gev' = GuardStep("step")
       /\ UNCHANGED <<files, checkPc, readPc, ret, boot, lineage>>

\* the process starts and calls InitDB; when InitDB has returned nil the
\* window is created and the frontend loads, otherwise the process exits
Main ==
    \/ /\ proc = "down"
       /\ proc' = "initdb_guard"
       /\ gev' = GuardStep("step")
       /\ UNCHANGED <<files, conn, checkPc, readPc, ret, boot, lineage>>
    \/ /\ proc = "initdb_ret"
       /\ IF ret.ok
          THEN /\ proc' = "up"
               /\ conn' = conn
               /\ Mount
               /\ gev' = GuardStep("started")
          ELSE /\ proc' = "down"
               /\ conn' = "none"
               /\ gev' = GuardStep("step")
               /\ UNCHANGED <<checkPc, readPc>>
       /\ UNCHANGED <<files, ret, boot, lineage>>

ProcessStart ==
    /\ Main
    /\ UNCHANGED <<controller, channel, translator, client, outline>>

\* InitDB, "Check for corruption and restore if needed": the results of
\* os.Rename and copyFile are dropped
InitDBGuard(copies) ==
    /\ proc = "initdb_guard"
    /\ \E o \in copies :
         LET cp == copyFile(files, DbPath, BackupPath, o)
             found == IF ~exists(files, DbPath) THEN "absent"
                      ELSE IF isCorrupt(files, DbPath) THEN "corrupt"
                      ELSE "healthy"
         IN  /\ files' = IF found = "corrupt"
                         THEN Rename(files, DbPath, CorruptPath)
                         ELSE IF found = "healthy" THEN cp.fs
                         ELSE files
             /\ boot' = Found(found, found = "healthy" /\ ~cp.err, files)
    /\ proc' = "initdb_open"
    /\ gev' = GuardStep("step")
    /\ UNCHANGED <<conn, checkPc, readPc, ret, lineage>>
    /\ UNCHANGED <<controller, channel, translator, client, outline>>

\* InitDB: sql.Open, db = &Database{...}, initTables (CREATE TABLE IF NOT
\* EXISTS), or return err with db left nil
InitDBOpen(oks) ==
    /\ proc = "initdb_open"
    /\ \E ok \in oks :
         /\ ret' = Returned(ok, FALSE)
         /\ IF ok
            THEN /\ conn' = "open"
                 /\ files' = IF exists(files, DbPath) THEN files
                             ELSE [files EXCEPT ![DbPath] = EmptyStore]
                 /\ lineage' = IF exists(files, DbPath) THEN lineage
                               ELSE IF exists(files, CorruptPath) THEN "fresh"
                               ELSE "first"
            ELSE UNCHANGED <<conn, files, lineage>>
    /\ proc' = "initdb_ret"
    /\ gev' = GuardStep("step")
    /\ UNCHANGED <<checkPc, readPc, boot>>
    /\ UNCHANGED <<controller, channel, translator, client, outline>>

\* the process ends (quit, crash, kill)
ProcessEnd ==
    /\ proc # "down"
    /\ proc' = "down"
    /\ conn' = "none"
    /\ checkPc' = "none"
    /\ readPc' = "none"
    /\ gev' = GuardStep("step")
    /\ UNCHANGED <<files, ret, boot, lineage>>
    /\ UNCHANGED <<controller, channel, translator, client, outline>>

\* while no process runs, settings.db is damaged (a torn write, a bad disk)
Corrupt ==
    /\ proc = "down"
    /\ files[DbPath].kind = "db"
    /\ files' = [files EXCEPT ![DbPath] = Garbage]
    /\ gev' = GuardStep("step")
    /\ UNCHANGED <<proc, conn, checkPc, readPc, ret, boot, lineage>>
    /\ UNCHANGED <<controller, channel, translator, client, outline>>

\* SetAppState, SaveShadowFile, ClearShadowFile, ...: d.conn.Exec changes rows
StoreWrite ==
    /\ proc = "up"
    /\ conn = "open"
    /\ files[DbPath].kind = "db"
    /\ \E d \in 1..MaxData :
         /\ d # files[DbPath].data
         /\ files' = [files EXCEPT ![DbPath] = Store(d)]
    /\ gev' = GuardStep("step")
    /\ UNCHANGED <<proc, conn, checkPc, readPc, ret, boot, lineage>>
    /\ UNCHANGED <<controller, channel, translator, client, outline>>

\* the startup effect's first call into the store (GetPreference, then
\* GetAppState("lastFile"), GetShadowFile, GetAppState("cursorPos"))
StartupRead ==
    /\ readPc = "pending"
    /\ readPc' = "done"
    /\ gev' = GuardStep("startup_read")
    /\ UNCHANGED <<proc, files, conn, checkPc, ret, boot, lineage>>
    /\ UNCHANGED <<controller, channel, translator, client, outline>>

\* Go: App.HasCorruption ("database not initialized" when db == nil)
HasCorruptionExec ==
    /\ checkPc = "has_call"
    /\ ret' = IF conn = "none" THEN Returned(FALSE, FALSE)
              ELSE Returned(TRUE, HasCorruption(files))
    /\ checkPc' = "has_ret"
    /\ gev' = GuardStep("step")
    /\ UNCHANGED <<proc, files, conn, readPc, boot, lineage>>
    /\ UNCHANGED <<controller, channel, translator, client, outline>>

OffersRestoreAlways(r) == r.ok

\* const has = await HasCorruption(); if (has) ...
OffersRestore(r) == r.ok /\ r.val

\* if (has) { if (confirm(...)) { await RestoreBackup(); ...
CheckAnswer ==
    /\ checkPc = "has_ret"
    /\ IF OffersRestore(ret)
       THEN \E yes \in BOOLEAN :
              checkPc' = IF yes THEN "restore_call" ELSE "done"
       ELSE checkPc' = "done"
    /\ gev' = GuardStep("step")
    /\ UNCHANGED <<proc, files, conn, readPc, ret, boot, lineage>>
    /\ UNCHANGED <<controller, channel, translator, client, outline>>

\* Database.RestoreBackup: what it leaves of the files and the connection,
\* and whether it returns an error
RestoreBackup(fs, cn, outcome, reopens) ==
    IF ~exists(fs, BackupPath)
    THEN [fs |-> fs, conn |-> cn, err |-> TRUE, replaced |-> FALSE]
    ELSE LET cp == copyFile(fs, BackupPath, DbPath, outcome)
         IN  IF cp.err
             THEN [fs |-> cp.fs, conn |-> IF reopens THEN "open" ELSE "nil",
                   err |-> TRUE, replaced |-> cp.fs # fs]
             ELSE IF ~reopens
             THEN [fs |-> cp.fs, conn |-> "closed", err |-> TRUE,
                   replaced |-> TRUE]
             ELSE [fs |-> Remove(cp.fs, CorruptPath), conn |-> "open",
                   err |-> FALSE, replaced |-> TRUE]

\* Go: App.RestoreBackup ("database not initialized" when db == nil)
RestoreBackupExec(copies, oks) ==
    /\ checkPc = "restore_call"
    /\ IF conn = "none"
       THEN /\ ret' = Returned(FALSE, FALSE)
            /\ UNCHANGED <<files, conn, lineage>>
       ELSE \E o \in copies, ok \in oks :
              LET r == RestoreBackup(files, conn, o, ok)
              IN  /\ files' = r.fs
                  /\ conn' = r.conn
                  /\ ret' = Returned(~r.err, FALSE)
                  /\ lineage' = IF ~r.replaced THEN lineage
                                ELSE IF r.fs[DbPath] = files[BackupPath]
                                THEN "restored" ELSE "partial"
    /\ checkPc' = "restore_ret"
    /\ gev' = GuardStep("restore")
    /\ UNCHANGED <<proc, readPc, boot>>
    /\ UNCHANGED <<controller, channel, translator, client, outline>>

\* alert(...); window.location.reload(): the frontend loads again in the same
\* process; a rejected RestoreBackup goes to the catch
RestoreReturn ==
    /\ checkPc = "restore_ret"
    /\ IF ret.ok
       THEN Mount
       ELSE /\ checkPc' = "done"
            /\ readPc' = readPc
    /\ gev' = GuardStep("step")
    /\ UNCHANGED <<proc, files, conn, ret, boot, lineage>>
    /\ UNCHANGED <<controller, channel, translator, client, outline>>

GuardHandlers(copies, oks) ==
    \/ ProcessStart
    \/ InitDBGuard(copies)
    \/ InitDBOpen(oks)
    \/ ProcessEnd
    \/ Corrupt
    \/ StoreWrite
    \/ StartupRead
    \/ HasCorruptionExec
    \/ CheckAnswer
    \/ RestoreBackupExec(copies, oks)
    \/ RestoreReturn

\* every copy and every sql.Open may fail
NextGuard == GuardHandlers(CopyOutcomes, Outcomes)

SpecGuard == InitGuard /\ [][NextGuard]_vars

\* Database.RestoreBackup step by step, as the other goroutines see it:
\* first d.conn.Close() and the 100 ms sleep ...
RestoreBackupClose ==
    /\ checkPc = "restore_call"
    /\ IF conn = "none" \/ ~exists(files, BackupPath)
       THEN /\ ret' = Returned(FALSE, FALSE)
            /\ checkPc' = "restore_ret"
            /\ conn' = conn
       ELSE /\ conn' = "closed"
            /\ checkPc' = "restore_sleep"
            /\ ret' = ret
    /\ gev' = GuardStep("step")
    /\ UNCHANGED <<proc, files, readPc, boot, lineage>>
    /\ UNCHANGED <<controller, channel, translator, client, outline>>

\* ... then copyFile, sql.Open, d.conn = conn and os.Remove
RestoreBackupReopen(copies, oks) ==
    /\ checkPc = "restore_sleep"
    /\ \E o \in copies, ok \in oks :
         LET r == RestoreBackup(files, conn, o, ok)
         IN  /\ files' = r.fs
             /\ conn' = r.conn
             /\ ret' = Returned(~r.err, FALSE)
             /\ lineage' = IF ~r.replaced THEN lineage
                           ELSE IF r.fs[DbPath] = files[BackupPath]
                           THEN "restored" ELSE "partial"
    /\ checkPc' = "restore_ret"
    /\ gev' = GuardStep("restore")
    /\ UNCHANGED <<proc, readPc, boot>>
    /\ UNCHANGED <<controller, channel, translator, client, outline>>

\* the guard with the calls of the frontend running beside RestoreBackup
NextRestore ==
    \/ ProcessStart
    \/ InitDBGuard(CopyOutcomes)
    \/ InitDBOpen(Outcomes)
    \/ ProcessEnd
    \/ Corrupt
    \/ StoreWrite
    \/ StartupRead
    \/ HasCorruptionExec
    \/ CheckAnswer
    \/ RestoreBackupClose
    \/ RestoreBackupReopen(CopyOutcomes, Outcomes)
    \/ RestoreReturn

SpecRestore == InitGuard /\ [][NextRestore]_vars

----------------------------------------------------------------------------
(* The sync channel: the outgoing effects of the Preview, its message       *)
(* listener, the iframe's script and the App's 'preview-edit' handler.      *)
(* Messages in one direction are handled in the order they were posted.     *)
(* The style sheet and the caret inside the iframe are not modelled.        *)

Changed(o, n, deps) == \E d \in deps : o[d] # n[d]

UpdateContentEffectStaleDeps(o, n) ==
    IF /\ Changed(o, n, {"content", "editing", "active"})
       /\ n.loaded
       /\ (~n.editing \/ ~n.active)
    THEN <<UpdateContent(convertToHtml(n.content, FALSE))>>
    ELSE <<>>

\* "Update Content", dependencies [content, iframeLoaded, isEditing, isActive]
UpdateContentEffect(o, n) ==
    IF /\ Changed(o, n, {"content", "loaded", "editing", "active"})
       /\ n.loaded
       /\ (~n.editing \/ ~n.active)
    THEN <<UpdateContent(convertToHtml(n.content, FALSE))>>
    ELSE <<>>

\* "Update CSS", dependencies [customCss, iframeLoaded]
UpdateCssEffect(o, n) ==
    IF Changed(o, n, {"loaded"}) /\ n.loaded THEN <<UpdateCss>> ELSE <<>>

EditModeEffectUngated(o, n) ==
    IF Changed(o, n, {"editing", "loaded"})
    THEN <<SetEditMode(n.editing)>>
    ELSE <<>>

\* "Update Edit Mode", dependencies [isEditing, iframeLoaded]
EditModeEffect(o, n) ==
    IF Changed(o, n, {"editing", "loaded"}) /\ n.loaded
    THEN <<SetEditMode(n.editing)>>
    ELSE <<>>

\* "Update Cursor", dependencies [cursorOffset, isEditing, iframeLoaded]
CursorEffect(o, n) ==
    IF Changed(o, n, {"cursor", "editing", "loaded"}) /\ n.loaded /\ n.editing
    THEN <<SetCursor(n.cursor)>>
    ELSE <<>>

\* "Initial Sync on Activation", dependencies [isActive, isEditing,
\* iframeLoaded]; it also starts the timer that posts 'find-cursor-marker'
InitialSyncEffect(o, n) ==
    IF /\ Changed(o, n, {"active", "editing", "loaded"})
       /\ n.active /\ n.editing /\ n.loaded
    THEN <<UpdateContent(convertToHtml(n.content, TRUE))>>
    ELSE <<>>

\* the effects of one commit of the Preview, in the order they are declared
Effects(o, n) ==
    UpdateContentEffect(o, n) \o UpdateCssEffect(o, n) \o EditModeEffect(o, n)
        \o CursorEffect(o, n) \o InitialSyncEffect(o, n)

\* render the Preview with props and state n and run its effects
PreviewCommit(n) ==
    LET sent == Effects(NowProps, n)
    IN  /\ Len(toFrame) + Len(sent) <= MaxQueue
        /\ toFrame' = toFrame \o sent
        /\ markerTimer' = (markerTimer \/ InitialSyncEffect(NowProps, n) # <<>>)

\* the code editor's onChange: setContent(c)
CodeEdit ==
    /\ \E c \in Contents :
         /\ c # content
         /\ Commit(c, savedContent, fileName)
         /\ PreviewCommit([NowProps EXCEPT !.content = c])
    /\ edits' = IF edits < MaxEdits THEN edits + 1 ELSE edits
    /\ cev' = ChannelStep("step")
    /\ UNCHANGED <<dialog, inflight, store, pc, call, ev>>
    /\ UNCHANGED <<iframeLoaded, isVisualEditEnabled, activeEditor,
                   cursorOffset, toParent, frame, readySeen>>
    /\ UNCHANGED <<guard, translator, client, outline>>

\* handleCursorMove: setActiveEditor('code'); the cursor position changes
CursorChange ==
    /\ \E k \in CursorOffsets :
         /\ k # cursorOffset
         /\ cursorOffset' = k
         /\ activeEditor' = "code"
         /\ PreviewCommit([NowProps EXCEPT !.cursor = k, !.active = FALSE])
    /\ cev' = ChannelStep("step")
    /\ UNCHANGED <<iframeLoaded, isVisualEditEnabled, toParent, frame,
                   readySeen>>
    /\ UNCHANGED <<controller, guard, translator, client, outline>>

\* the Preview's edit button: onToggleEditing(); if (!isEditing) onActivate()
\* (Tab, F9 and F10 in the App reach the same pairs of values)
ToggleEditing ==
    /\ isVisualEditEnabled' = ~isVisualEditEnabled
    /\ activeEditor' = IF ~isVisualEditEnabled THEN "visual" ELSE activeEditor
    /\ PreviewCommit([NowProps EXCEPT
                        !.editing = ~isVisualEditEnabled,
                        !.active = ~isVisualEditEnabled \/ NowProps.active])
    /\ cev' = ChannelStep("step")
    /\ UNCHANGED <<iframeLoaded, cursorOffset, toParent, frame, readySeen>>
    /\ UNCHANGED <<controller, guard, translator, client, outline>>

\* setTimeout(() => postMessage({ type: 'find-cursor-marker' }), 50)
MarkerTimerFire ==
    /\ markerTimer
    /\ Len(toFrame) < MaxQueue
    /\ markerTimer' = FALSE
    /\ toFrame' = Append(toFrame, FindCursorMarker)
    /\ cev' = ChannelStep("step")
    /\ UNCHANGED <<iframeLoaded, isVisualEditEnabled, activeEditor,
                   cursorOffset, toParent, frame, readySeen>>
    /\ UNCHANGED <<controller, guard, translator, client, outline>>

\* the Preview's listener: 'preview-ready' sets iframeLoaded
ReadyReceived ==
    /\ toParent # <<>>
    /\ Head(toParent).type = "preview-ready"
    /\ toParent' = Tail(toParent)
    /\ iframeLoaded' = TRUE
    /\ readySeen' = TRUE
    /\ PreviewCommit([NowProps EXCEPT !.loaded = TRUE])
    /\ cev' = ChannelStep("ready")
    /\ UNCHANGED <<isVisualEditEnabled, activeEditor, cursorOffset, frame>>
    /\ UNCHANGED <<controller, guard, translator, client, outline>>

\* <iframe onLoad={() => setIframeLoaded(true)}>: the load event comes after
\* the script has run, before or after 'preview-ready' is handled
IframeOnLoad ==
    /\ frame.phase = "scripted"
    /\ frame' = [frame EXCEPT !.phase = "loaded"]
    /\ iframeLoaded' = TRUE
    /\ PreviewCommit([NowProps EXCEPT !.loaded = TRUE])
    /\ cev' = ChannelStep("load")
    /\ UNCHANGED <<isVisualEditEnabled, activeEditor, cursorOffset, toParent,
                   readySeen>>
    /\ UNCHANGED <<controller, guard, translator, client, outline>>

PreviewEditMerges(m, cur) == IF cur = savedContent THEN m.text ELSE cur

\* const newContent = event.data.content
PreviewEditContent(m, cur) == m.text

\* App's listener, 'preview-edit': setContent(newContent);
\* editorRef.current?.setValue(newContent), whose onChange sets it again
PreviewEdit ==
    /\ toParent # <<>>
    /\ Head(toParent).type = "preview-edit"
    /\ toParent' = Tail(toParent)
    /\ LET z == PreviewEditContent(Head(toParent), content)
       IN  /\ Commit(z, savedContent, fileName)
           /\ PreviewCommit([NowProps EXCEPT !.content = z])
    /\ cev' = ChannelEvent("preview_edit", Head(toParent).text, content)
    /\ UNCHANGED <<dialog, inflight, store, pc, call, edits, ev>>
    /\ UNCHANGED <<iframeLoaded, isVisualEditEnabled, activeEditor,
                   cursorOffset, frame, readySeen>>
    /\ UNCHANGED <<guard, translator, client, outline>>

\* the iframe's script runs: it adds its listeners and posts 'preview-ready'
FrameScript ==
    /\ frame.phase = "loading"
    /\ frame' = [frame EXCEPT !.phase = "scripted"]
    /\ Len(toParent) < MaxToParent
    /\ toParent' = Append(toParent, PreviewReady)
    /\ cev' = ChannelStep("step")
    /\ UNCHANGED <<iframeLoaded, isVisualEditEnabled, activeEditor,
                   cursorOffset, toFrame, markerTimer, readySeen>>
    /\ UNCHANGED <<controller, guard, translator, client, outline>>

ApplyUpdateAppends(dom, html) ==
    IF Serialize(dom) # html
    THEN IF Len(dom) < 2 THEN dom \o Parse(html) ELSE dom
    ELSE dom

\* if (contentDiv.innerHTML !== data.html) contentDiv.innerHTML = data.html
ApplyUpdate(dom, html) ==
    IF Serialize(dom) # html THEN Parse(html) ELSE dom

\* marker.remove()
RemoveMarker(dom) == [i \in DOMAIN dom |-> [dom[i] EXCEPT !.marker = FALSE]]

\* the iframe's message listener
HandleMessage(d, m) ==
    IF m.type = "update-content"
    THEN [d EXCEPT !.dom = ApplyUpdate(d.dom, m.html), !.last = m]
    ELSE IF m.type = "set-edit-mode"
    THEN [d EXCEPT !.editable = m.on]
    ELSE IF m.type = "find-cursor-marker" /\ RemoveMarker(d.dom) # d.dom
    THEN [d EXCEPT !.dom = RemoveMarker(d.dom), !.last = NoMsg]
    ELSE d

\* the iframe handles the next message; before its script has run there is
\* no listener and the message is lost
FrameReceive ==
    /\ toFrame # <<>>
    /\ toFrame' = Tail(toFrame)
    /\ frame' = IF frame.phase = "loading" THEN frame
                ELSE HandleMessage(frame, Head(toFrame))
    /\ cev' = ChannelStep(IF frame.phase = "loading" THEN "frame_lost"
                          ELSE IF Head(toFrame).type # "update-content"
                          THEN "frame_receive"
                          ELSE IF frame.last = Head(toFrame)
                          THEN "frame_update_again"
                          ELSE "frame_update")
    /\ UNCHANGED <<iframeLoaded, isVisualEditEnabled, activeEditor,
                   cursorOffset, toParent, markerTimer, readySeen>>
    /\ UNCHANGED <<controller, guard, translator, client, outline>>

\* the user types in the editable body: the 'input' listener posts
\* 'preview-edit' with document.body.innerText
FrameInput ==
    /\ frame.phase # "loading"
    /\ frame.editable
    /\ Len(toParent) < MaxToParent
    /\ \E z \in Contents :
         /\ frame' = [frame EXCEPT !.dom = <<Frag(z, FALSE, TRUE)>>,
                                   !.last = NoMsg]
         /\ toParent' = Append(toParent, PreviewEditMsg(z))
    /\ cev' = ChannelStep("step")
    /\ UNCHANGED <<iframeLoaded, isVisualEditEnabled, activeEditor,
                   cursorOffset, toFrame, markerTimer, readySeen>>
    /\ UNCHANGED <<controller, guard, translator, client, outline>>

NextChannel ==
    \/ CodeEdit
    \/ CursorChange
    \/ ToggleEditing
    \/ MarkerTimerFire
    \/ ReadyReceived
    \/ IframeOnLoad
    \/ PreviewEdit
    \/ FrameScript
    \/ FrameReceive
    \/ FrameInput

SpecChannel == Init /\ [][NextChannel]_vars

----------------------------------------------------------------------------
(* The position translator.  While the visual editor is the active surface  *)
(* the iframe's subtree is not rendered again, and every 'preview-edit'      *)
(* replaces the content by the subtree's text; so the lines the subtree's    *)
(* tags name and the lines of the content are independent of each other.     *)

IsTaggedAnyElement(node) == node.kind = "element"

\* current.nodeType === 1 and a class data-line-N is found
IsTagged(node) == node.kind = "element" /\ node.line # NoLine

\* while (current && current !== document.body) ... current = current.parentNode
RECURSIVE Walk(_, _)
Walk(t, n) ==
    IF n = Body THEN [lineNum |-> NoLine, current |-> Body]
    ELSE IF IsTagged(t[n]) THEN [lineNum |-> t[n].line, current |-> n]
    ELSE Walk(t, t[n].parent)

\* selectNodeContents(b): node n lies inside b
RECURSIVE Contains(_, _, _)
Contains(t, b, n) ==
    IF n = Body THEN FALSE
    ELSE IF t[n].parent = b THEN TRUE
    ELSE Contains(t, b, t[n].parent)

\* the characters of the text nodes inside b among the first n nodes
RECURSIVE TextLength(_, _, _)
TextLength(t, b, n) ==
    IF n = 0 THEN 0
    ELSE (IF t[n].kind = "text" /\ Contains(t, b, n) THEN t[n].len ELSE 0)
         + TextLength(t, b, n - 1)

\* the keydown handler's sourcePos: preCaretRange runs from the start of the
\* tagged block to the caret, and its text's length is the offset
SourcePos(t, c) ==
    IF c = NoCaret THEN NoPos
    ELSE LET w == Walk(t, c.node)
         IN  IF w.lineNum # NoLine /\ w.current # Body
             THEN Pos(w.lineNum,
                      TextLength(t, w.current, c.node - 1) + c.offset)
             ELSE NoPos

Clamp(x, lo, hi) == IF x < lo THEN lo ELSE IF x > hi THEN hi ELSE x

\* editor.setPosition: Monaco validates the position against its model
setPosition(lines, pos) ==
    LET l == Clamp(pos.line, 1, Len(lines))
    IN  Pos(l, Clamp(pos.offset, 1, lines[l] + 1))

\* Editor.setCursor(line, col)
setCursor(lines, line, col) == setPosition(lines, Pos(line, col))

\* the first element tagged with the line, NoBlock when there is none
Tagged(t, l) ==
    LET s == {i \in DOMAIN t : IsTagged(t[i]) /\ t[i].line = l}
    IN  IF s = {} THEN NoBlock ELSE CHOOSE i \in s : \A j \in s : i <= j

\* scan decreasing line numbers down to `low` and return the first match
RECURSIVE Scan(_, _, _)
Scan(t, l, low) ==
    IF l < low THEN NoBlock
    ELSE IF Tagged(t, l) # NoBlock THEN Tagged(t, l)
    ELSE Scan(t, l - 1, low)

lineToRenderRefToZero(t, line) ==
    IF Tagged(t, line) # NoBlock THEN Tagged(t, line) ELSE Scan(t, line - 1, 0)

\* exact match on the line, else the nearest preceding block down to line 1,
\* else nothing
lineToRenderRef(t, line) ==
    IF Tagged(t, line) # NoBlock THEN Tagged(t, line) ELSE Scan(t, line - 1, 1)

\* the user puts the caret somewhere in the rendered document
Select ==
    /\ tabPc = "idle"
    /\ \E c \in Carets(tree) : caret' = c
    /\ tev' = TranslatorStep("step")
    /\ UNCHANGED <<tree, contentRef, tabPc, sourcePos, cursor, cursorPosRef,
                   block>>
    /\ UNCHANGED <<controller, guard, channel, client, outline>>

\* the iframe's keydown listener, e.key === 'Tab'
KeydownTab ==
    /\ tabPc = "idle"
    /\ sourcePos' = SourcePos(tree, caret)
    /\ tabPc' = "posted"
    /\ tev' = TranslatorEvent("tab", SourcePos(tree, caret), cursor,
                              cursorPosRef)
    /\ UNCHANGED <<tree, caret, contentRef, cursor, cursorPosRef, block>>
    /\ UNCHANGED <<controller, guard, channel, client, outline>>

\* App's handleMessage, 'preview-tab': targetPos is computed from contentRef
\* and sourcePos and then read by nothing; the callback of setTimeout reads
\* sourcePos alone
PreviewTab ==
    /\ tabPc = "posted"
    /\ activeEditor' = "code"
    /\ isVisualEditEnabled' = FALSE
    /\ PreviewCommit([NowProps EXCEPT !.editing = FALSE, !.active = FALSE])
    /\ tabPc' = "timeout"
    /\ tev' = TranslatorEvent("tab_handled", sourcePos, cursor, cursorPosRef)
    /\ cev' = ChannelStep("step")
    /\ UNCHANGED <<iframeLoaded, cursorOffset, toParent, frame, readySeen>>
    /\ UNCHANGED <<tree, caret, contentRef, sourcePos, cursor, cursorPosRef,
                   block>>
    /\ UNCHANGED <<controller, guard, client, outline>>

\* the callback of setTimeout(..., 0)
TabTimeout ==
    /\ tabPc = "timeout"
    /\ IF sourcePos # NoPos /\ sourcePos.line # 0
       THEN /\ cursor' = setCursor(contentRef, sourcePos.line, 1)
            /\ cursorPosRef' = sourcePos.line
       ELSE UNCHANGED <<cursor, cursorPosRef>>
    /\ tabPc' = "idle"
    /\ tev' = TranslatorEvent("tab_applied", sourcePos, cursor, cursorPosRef)
    /\ UNCHANGED <<tree, caret, contentRef, sourcePos, block>>
    /\ UNCHANGED <<controller, guard, channel, client, outline>>

\* lineToRenderRef is applied to a line
Lookup ==
    /\ tabPc = "idle"
    /\ \E l \in 0..(MaxLine + 1) :
         /\ block' = lineToRenderRef(tree, l)
         /\ tev' = TranslatorEvent("lookup", Pos(l, 0), cursor, cursorPosRef)
    /\ UNCHANGED <<tree, caret, contentRef, tabPc, sourcePos, cursor,
                   cursorPosRef>>
    /\ UNCHANGED <<controller, guard, channel, client, outline>>

\* the iframe is loaded and the visual editor is the active surface; the
\* rendered document and the content are any of the drawn ones
InitTab ==
    /\ InitController
    /\ InitUp
    /\ iframeLoaded = TRUE
    /\ isVisualEditEnabled = TRUE
    /\ activeEditor = "visual"
    /\ cursorOffset = 0
    /\ toFrame = <<>>
    /\ toParent = <<>>
    /\ frame = Document("loaded", <<>>, TRUE, NoMsg)
    /\ markerTimer = FALSE
    /\ readySeen = TRUE
    /\ cev = ChannelStep("step")
    /\ tree \in Trees
    /\ caret = NoCaret
    /\ contentRef \in LineTexts
    /\ tabPc = "idle"
    /\ sourcePos = NoPos
    /\ cursor = Pos(1, 1)
    /\ cursorPosRef = 1
    /\ block = NoBlock
    /\ tev = TranslatorStep("step")
    /\ InitClient
    /\ InitOutline

NextTab ==
    \/ Select
    \/ KeydownTab
    \/ PreviewTab
    \/ TabTimeout
    \/ ToggleEditing
    \/ MarkerTimerFire
    \/ FrameReceive

SpecTab == InitTab /\ [][NextTab]_vars

\* lineToRenderRef as a function of the rendered blocks: three elements
\* under the body, each untagged or tagged with any line
BlockLists == [1..3 -> {El(Body, l) : l \in NoLine..MaxLine}]

InitLookup ==
    /\ InitController
    /\ InitUp
    /\ InitChannel
    /\ tree \in BlockLists
    /\ caret = NoCaret
    /\ contentRef = <<2>>
    /\ tabPc = "idle"
    /\ sourcePos = NoPos
    /\ cursor = Pos(1, 1)
    /\ cursorPosRef = 1
    /\ block = NoBlock
    /\ tev = TranslatorStep("step")
    /\ InitClient
    /\ InitOutline

NextLookup == Lookup

SpecLookup == InitLookup /\ [][NextLookup]_vars

----------------------------------------------------------------------------
(* The shadow store under any caller: SaveShadowFile, ClearShadowFile and   *)
(* GetShadowFile of app.go, each call run to its end by Go.  A call that     *)
(* fails (db == nil, or the statement returns an error) changes nothing.     *)

ShadowWrite(oks) ==
    /\ \E p \in Keys, c \in ShadowContents, d \in BOOLEAN, ok \in oks :
         IF ok
         THEN /\ shadow_files' = SaveShadowFile(shadow_files, p, c, d)
              /\ written' = [written EXCEPT ![p] =
                               Record(c, d, Min(@.writes + 1, MaxWrites))]
         ELSE UNCHANGED <<shadow_files, written>>
    /\ got' = NotRead
    /\ UNCHANGED <<content, savedContent, fileName, isDirty,
                   pendingFileToOpen, isUnsavedDialogOpen, timers, inflight,
                   disk, lastFile, pc, call, edits, ev>>
    /\ UNCHANGED <<guard, channel, translator, outline>>

ShadowClear(oks) ==
    /\ \E p \in Keys, ok \in oks :
         IF ok
         THEN /\ shadow_files' = ClearShadowFile(shadow_files, p)
              /\ written' = [written EXCEPT ![p] = NoRecord]
         ELSE UNCHANGED <<shadow_files, written>>
    /\ got' = NotRead
    /\ UNCHANGED <<content, savedContent, fileName, isDirty,
                   pendingFileToOpen, isUnsavedDialogOpen, timers, inflight,
                   disk, lastFile, pc, call, edits, ev>>
    /\ UNCHANGED <<guard, channel, translator, outline>>

ShadowRead(oks) ==
    /\ \E p \in Keys, ok \in oks :
         LET r == IF ok THEN GetShadowFile(shadow_files, p) ELSE ShadowError
         IN  got' = [path |-> p, ok |-> r.ok, content |-> r.content,
                     isDirty |-> r.isDirty]
    /\ UNCHANGED written
    /\ UNCHANGED <<controller, guard, channel, translator, outline>>

NextShadow ==
    \/ ShadowWrite(Outcomes)
    \/ ShadowClear(Outcomes)
    \/ ShadowRead(Outcomes)

SpecShadow == Init /\ [][NextShadow]_vars

----------------------------------------------------------------------------
(* The outline of the left sidebar: parseBlocks, stringifyBlocks and        *)
(* moveBlock on texts, and the handleMove of its arrow buttons.  Array      *)
(* indexes are the source's, from 0.                                        *)

MaxLines == 3

MaxIndex == 3

\* lines a text is made of: empty, plain, headers of level 1 and 2, and two
\* lines that start with '=' and are no headers
SourceLines ==
    { <<>>, <<"a">>, <<"=", " ", "a">>, <<"=", "=", " ", "a">>,
      <<"=", "a">>, <<"=", " ">> }

\* \s of the header pattern
IsSpace(ch) == ch \in {" ", "\t"}

\* content.split('\n')
RECURSIVE split(_)
split(s) ==
    IF \A k \in 1..Len(s) : s[k] # "\n"
    THEN <<s>>
    ELSE LET i == CHOOSE k \in 1..Len(s) :
                      /\ s[k] = "\n"
                      /\ \A j \in 1..(k - 1) : s[j] # "\n"
         IN  <<SubSeq(s, 1, i - 1)>> \o split(SubSeq(s, i + 1, Len(s)))

\* lines.join('\n')
RECURSIVE join(_)
join(lines) ==
    IF Len(lines) = 0 THEN <<>>
    ELSE IF Len(lines) = 1 THEN lines[1]
    ELSE lines[1] \o NL \o join(Tail(lines))

\* line.match(/^(=+)\s+(.+)$/): whether it matches, the length of group 1
\* and group 2
headerMatch(line) ==
    LET n == CHOOSE k \in 0..Len(line) :
                 /\ \A j \in 1..k : line[j] = "="
                 /\ k = Len(line) \/ line[k + 1] # "="
        m == CHOOSE k \in n..Len(line) :
                 /\ \A j \in (n + 1)..k : IsSpace(line[j])
                 /\ k = Len(line) \/ ~IsSpace(line[k + 1])
        matched == n >= 1 /\ m > n /\ Len(line) >= n + 2
    IN  [matched |-> matched,
         level |-> n,
         title |-> IF ~matched THEN <<>>
                   ELSE IF m = Len(line) THEN <<line[m]>>
                   ELSE SubSeq(line, m + 1, Len(line))]

SectionBlock(title, level, lines) ==
    [title |-> title, level |-> level, lines |-> lines]

Preamble == <<"P", "r", "e", "a", "m", "b", "l", "e">>

\* if (currentLines.length > 0) blocks.push({...})
Push(blocks, title, level, lines) ==
    IF Len(lines) > 0 THEN Append(blocks, SectionBlock(title, level, lines))
    ELSE blocks

\* lines.forEach(...) from line i on, and the push of the final block
RECURSIVE forEach(_, _, _, _, _, _)
forEach(lines, i, blocks, currentLines, currentTitle, currentLevel) ==
    IF i > Len(lines)
    THEN Push(blocks, currentTitle, currentLevel, currentLines)
    ELSE LET h == headerMatch(lines[i])
         IN  IF h.matched
             THEN forEach(lines, i + 1,
                          Push(blocks, currentTitle, currentLevel,
                               currentLines),
                          <<lines[i]>>, h.title, h.level)
             ELSE forEach(lines, i + 1, blocks,
                          Append(currentLines, lines[i]),
                          currentTitle, currentLevel)

parseBlocks(c) == forEach(split(c), 1, <<>>, <<>>, Preamble, 0)

stringifyBlocksTrailing(blocks) ==
    join([k \in 1..Len(blocks) |-> join(blocks[k].lines)]) \o NL

\* blocks.map(b => b.lines.join('\n')).join('\n')
stringifyBlocks(blocks) ==
    join([k \in 1..Len(blocks) |-> join(blocks[k].lines)])

\* what a call of moveBlock ends in
Returns(c) == [threw |-> FALSE, content |-> c]

\* b.lines of an undefined array element
TypeError == [threw |-> TRUE, content |-> <<>>]

\* moveBlock: with fromIndex outside the array and toIndex inside it the
\* swap stores undefined at toIndex and stringifyBlocks throws
moveBlock(c, fromIndex, direction) ==
    LET blocks == parseBlocks(c)
        n == Len(blocks)
        toIndex == IF direction = "up" THEN fromIndex - 1 ELSE fromIndex + 1
    IN  IF toIndex < 0 \/ toIndex >= n THEN Returns(c)
        ELSE IF fromIndex < 0 \/ fromIndex >= n THEN TypeError
        ELSE Returns(stringifyBlocks(
                 [k \in 1..n |->
                     IF k = fromIndex + 1 THEN blocks[toIndex + 1]
                     ELSE IF k = toIndex + 1 THEN blocks[fromIndex + 1]
                     ELSE blocks[k]]))

\* handleMove: onContentChange(moveBlock(content, index, direction))
HandleMove ==
    /\ secondMove = NoMove
    /\ \E i \in -1..MaxIndex, dir \in {"up", "down"} :
         LET r == moveBlock(blockText, i, dir)
         IN  /\ blockText' = IF r.threw THEN blockText ELSE r.content
             /\ threw' = r.threw
             /\ IF firstMove = NoMove
                THEN firstMove' = Move(i, dir) /\ secondMove' = secondMove
                ELSE secondMove' = Move(i, dir) /\ firstMove' = firstMove
    /\ given' = given
    /\ UNCHANGED <<controller, guard, channel, translator, client>>

\* the sidebar is open on a text of up to MaxLines lines
InitBlocks ==
    /\ InitController
    /\ InitUp
    /\ InitChannel
    /\ InitTranslator
    /\ InitClient
    /\ blockText \in {join(ls) : ls \in UNION {[1..n -> SourceLines] :
                                                n \in 1..MaxLines}}
    /\ given = blockText
    /\ firstMove = NoMove
    /\ secondMove = NoMove
    /\ threw = FALSE

NextBlocks == HandleMove

SpecBlocks == InitBlocks /\ [][NextBlocks]_vars

----------------------------------------------------------------------------
(* Properties of the document controller *)

HasRow(rows, path) == \E r \in rows : r.path = path

\* C1: after every content mutation, save, discard and open, once the commit
\* has run its effects, the dirty flag equals (content # savedContent).
DirtyIsContentDiffers == isDirty = (content # savedContent)

\* a save has just cleared the dirty flag of an edited document
SaveClearedDirty ==
    /\ ev.type = "save_done"
    /\ ev.call.dirtyAtInvoke
    /\ content = savedContent
    /\ ~isDirty

OpenIgnoresCleanShadow ==
    ( /\ ev.type = "open_done"
      /\ ev.call.shadow.ok
      /\ ~ev.call.shadow.isDirty )
    => content = ev.call.diskContent

\* an open has just found a clean record whose content is not the file's
CleanShadowDiffersOpened ==
    /\ ev.type = "open_done"
    /\ ev.call.shadow.ok
    /\ ~ev.call.shadow.isDirty
    /\ ev.call.shadow.content \in Contents
    /\ ev.call.shadow.content # ev.call.diskContent
    /\ content = ev.call.diskContent

\* C4: when save() completes on a real path with no edit made meanwhile, the
\* dirty flag is clear and the shadow record of the path has isDirty = false,
\* however a debounced shadow write pending or in flight interleaves.
SaveLeavesCleanShadow ==
    ( /\ ev.type = "save_done"
      /\ ~ev.call.edited )
    => /\ ~isDirty
       /\ \E r \in shadow_files : r.path = ev.call.filePath /\ ~r.is_dirty

\* C5: after a successful open through any entry point, savedContent is the
\* content read from disk for that path.
OpenSetsBaseline ==
    ev.type = "open_done" => savedContent = ev.call.diskContent

\* C6: an open asked for by file-tree click, drop or file dialog while the
\* document is dirty does not replace the content without the user's
\* decision, and Cancel leaves content, savedContent and the path as they are.
OpenWaitsForDecision ==
    [][ /\ ( /\ ev'.type = "open_done"
             /\ pc # "idle"
             /\ ev'.call.origin \in {"tree", "drop", "dialog"} )
           => ~ev'.call.dirtyAtInvoke
        /\ ( isUnsavedDialogOpen /\ ev'.type = "cancel" /\ pc = "idle" )
           => UNCHANGED <<content, savedContent, fileName>> ]_vars

\* C7: when an open switches the active path away from a real path while a
\* debounce timer is pending for edits made there, the old path's content is
\* flushed: it is in the old path's shadow record or on its way to it.
SwitchFlushesOldPath ==
    [][ ( /\ ev'.type = "open_done"
          /\ pc # "idle"
          /\ ev'.call.origin # "dialog_discard"
          /\ fileName' # fileName
          /\ IsReal(fileName)
          /\ edits > 0
          /\ timers # {} )
        => \/ \E r \in shadow_files' :
                r.path = fileName /\ r.content = content
           \/ \E w \in inflight' :
                w.path = fileName /\ w.content = content ]_vars

\* C8: the edits made within one debounce window lead to at most one shadow
\* write, and it carries the content of the last edit.
DebounceWritesLastEdit ==
    /\ Cardinality(timers) <= 1
    /\ \A t \in timers : t = Timer(fileName, content, isDirty)
    /\ ev.type = "timer_fire" =>
          /\ timers = {}
          /\ ev.timer.path = fileName
          /\ ev.timer.content = content

\* the timer has just fired after several edits
FiredAfterSeveralEdits ==
    /\ ev.type = "timer_fire"
    /\ ev.edits > 1
    /\ ev.timer.content = content

\* C9: when discard() completes on a dirty document with no edit made
\* meanwhile, a real path has no shadow record, content is the disk content
\* and the dirty flag is clear; the untitled document is back at the initial
\* template.
DiscardRestoresDisk ==
    /\ ( /\ ev.type = "open_done"
         /\ ev.call.origin = "discard"
         /\ ~ev.call.edited )
       => /\ ~HasRow(shadow_files, fileName)
          /\ content = ev.call.diskContent
          /\ ~isDirty
    /\ ev.type = "discard_untitled"
       => /\ content = INITIAL_CONTENT
          /\ savedContent = INITIAL_CONTENT

\* C10: when the shadow lookup of an open fails, the open completes all the
\* same (unless the process ends first): content becomes the disk content,
\* the active path is switched and no failure is reported.
ShadowFailureFallsBack ==
    [][ ( /\ pc = "open_shadow_ret"
          /\ ~call.shadow.ok
          /\ pc' # pc
          /\ ev'.type # "restart" )
        => /\ content' = call.diskContent
           /\ fileName' = call.path
           /\ ev'.type = "open_done"
           /\ pc' = "idle" ]_vars

\* an open has just completed although its shadow lookup failed
OpenedDespiteShadowFailure ==
    /\ ev.type = "open_done"
    /\ ev.call.origin # "dialog"
    /\ ~ev.call.shadow.ok
    /\ content = ev.call.diskContent
    /\ fileName = ev.call.path

----------------------------------------------------------------------------
(* Properties of the integrity guard *)

RestoreSucceedsOrStoreUsable ==
    gev.type = "restore" =>
        IF ret.ok
        THEN /\ files[DbPath] = files[BackupPath]
             /\ ~HasCorruption(files)
             /\ conn = "open"
        ELSE /\ conn = "open"
             /\ files[DbPath].kind = "db"

MarkerMeansFreshStore ==
    ( proc = "up" /\ HasCorruption(files) ) => lineage = "fresh"

GuardBeforeStartupRead ==
    [][ gev'.type = "startup_read" => proc = "up" ]_vars

\* the startup effect has read the store of a started application
StartupReadDone ==
    /\ gev.type = "startup_read"
    /\ readPc = "done"
    /\ proc = "up"

----------------------------------------------------------------------------
(* Properties of the sync channel *)

\* the messages a step posts to the iframe
Sent == SubSeq(toFrame', Len(toFrame) + 1, Len(toFrame'))

ControlTypes == {"update-content", "update-css", "set-edit-mode", "set-cursor"}

\* C17: a 'preview-edit' message carrying text Z sets the canonical content
\* to exactly Z, whatever the content was and whatever else is pending.
PreviewEditOverwrites ==
    cev.type = "preview_edit" => content = cev.text

\* a 'preview-edit' has replaced another content while a further message of
\* the iframe was waiting
PreviewEditReplacedContent ==
    /\ cev.type = "preview_edit"
    /\ cev.was # cev.text
    /\ content = cev.text
    /\ toParent # <<>>

UpdateContentIdempotent ==
    [][ /\ cev'.type = "frame_update_again" => frame'.dom = frame.dom
        /\ ( /\ cev'.type \in {"frame_update", "frame_update_again"}
             /\ Serialize(frame.dom) = Head(toFrame).html )
           => /\ frame'.dom = frame.dom
              /\ frame'.editable = frame.editable ]_vars

\* the iframe has handled the same update-content twice
SameUpdateTwice ==
    /\ cev.type = "frame_update_again"
    /\ frame.dom # <<>>
    /\ frame.dom = Parse(frame.last.html)

----------------------------------------------------------------------------
(* Properties of the position translator *)

\* the node and the nodes above it, up to the body
RECURSIVE Ancestors(_, _)
Ancestors(t, n) ==
    IF n = Body THEN {} ELSE {n} \cup Ancestors(t, t[n].parent)

TaggedAncestors(t, n) ==
    {a \in Ancestors(t, n) : t[a].kind = "element" /\ t[a].line # NoLine}

\* the characters of the text nodes of a set
RECURSIVE Characters(_, _)
Characters(t, ns) ==
    IF ns = {} THEN 0
    ELSE LET n == CHOOSE n \in ns : TRUE
         IN  t[n].len + Characters(t, ns \ {n})

\* C21: on 'preview-tab' with a resolved { line, offset } the code editor
\* becomes the active surface, visual editing is switched off, and the cursor
\* goes to that line at column offset min(offset, length of the line).
TabMovesCursorToPoint ==
    [][ /\ (tabPc = "posted" /\ tabPc' = "timeout")
           => activeEditor' = "code" /\ ~isVisualEditEnabled'
        /\ ( /\ tabPc = "timeout" /\ tabPc' = "idle"
             /\ sourcePos # NoPos
             /\ sourcePos.line \in 1..Len(contentRef) )
           => cursor' = Pos(sourcePos.line,
                           Min(sourcePos.offset, contentRef[sourcePos.line])
                           + 1) ]_vars

\* C22: a 'preview-tab' with a null position, or with a line outside the
\* lines of the content, leaves the cursor, and the line recorded for it,
\* where they were.
UnresolvedTabKeepsCursor ==
    ( /\ tev.type = "tab_applied"
      /\ tev.pos = NoPos \/ tev.pos.line \notin 1..Len(contentRef) )
    => cursor = tev.was /\ cursorPosRef = tev.ref

\* C23: Tab reports the line of the innermost tagged element around the
\* caret and the number of characters of that element's text before the
\* caret.
TabReportsNearestBlock ==
    ( /\ tev.type = "tab"
      /\ caret # NoCaret
      /\ TaggedAncestors(tree, caret.node) # {} )
    => \E a \in TaggedAncestors(tree, caret.node) :
         /\ \A b \in TaggedAncestors(tree, caret.node) :
              b \in Ancestors(tree, a)
         /\ sourcePos.line = tree[a].line
         /\ sourcePos.offset =
              Characters(tree, {i \in 1..(caret.node - 1) :
                                  /\ tree[i].kind = "text"
                                  /\ a \in Ancestors(tree, i)})
              + caret.offset

\* Tab was pressed inside a tagged block that lies in another, after text of
\* the inner block's earlier nodes
TabInsideNestedBlock ==
    /\ tev.type = "tab"
    /\ caret # NoCaret
    /\ Cardinality(TaggedAncestors(tree, caret.node)) = 2
    /\ sourcePos # NoPos
    /\ sourcePos.offset > caret.offset
    /\ caret.offset > 0

\* C24: for a line L that no block is tagged with, lineToRenderRef(L) is a
\* block of the largest tagged line among 1..L, and nothing when no block
\* is tagged with a line of 1..L.
FallbackIsNearestPreceding ==
    ( /\ tev.type = "lookup"
      /\ \A i \in DOMAIN tree : tree[i].line # tev.pos.line )
    => LET below == {i \in DOMAIN tree :
                       /\ tree[i].kind = "element"
                       /\ tree[i].line \in 1..tev.pos.line}
       IN  IF below = {} THEN block = NoBlock
           ELSE /\ block \in below
                /\ \A j \in below : tree[j].line <= tree[block].line

\* a line was looked up that only the preamble and an earlier block precede
FallbackPassedOverBlocks ==
    /\ tev.type = "lookup"
    /\ \A i \in DOMAIN tree : tree[i].line # tev.pos.line
    /\ \E i \in DOMAIN tree : tree[i].line = 0
    /\ block # NoBlock
    /\ tree[block].line < tev.pos.line - 1

----------------------------------------------------------------------------
(* Properties of the shadow store *)

\* C25: the shadow write is an upsert: the table holds at most one row for
\* a path, and a read of a path returns the content and the flag of the last
\* write to it that no clear has followed.
ShadowWriteIsUpsert ==
    /\ \A p \in Keys : Cardinality({r \in shadow_files : r.path = p}) <= 1
    /\ (got # NotRead /\ got.ok /\ written[got.path] # NoRecord)
       => /\ got.content = written[got.path].content
          /\ got.isDirty = written[got.path].isDirty

\* a path written more than once since it was last cleared has been read,
\* while another path holds a row too
ReadAfterRewrite ==
    /\ got # NotRead
    /\ got.ok
    /\ written[got.path].writes > 1
    /\ got.content = "X"
    /\ Cardinality(shadow_files) > 1

\* C26: the result of reading a path that has no row differs from the result
\* of reading a path whose row has empty content.
AbsentDiffersFromEmpty ==
    (got # NotRead /\ got.ok /\ written[got.path] = NoRecord)
    => \A d \in BOOLEAN :
         LET r == GetShadowFile({Row(got.path, "", d)}, got.path)
         IN  <<got.content, got.isDirty>> # <<r.content, r.isDirty>>

----------------------------------------------------------------------------
(* Properties of the document controller: sentinel path, errors, writes in  *)
(* flight                                                                    *)

\* C27: no shadow write is ever issued for the untitled sentinel: no timer
\* and no call in flight, of the debounce or of save, names it, and the
\* table holds no row for it.
NoShadowUnderUntitled ==
    /\ \A r \in shadow_files : r.path # Untitled
    /\ \A t \in timers \cup inflight : t.path # Untitled
    /\ pc \in {"save_shadow", "save_shadow_ret"} => call.filePath # Untitled

\* an untitled document with edits has been saved under a path, and the
\* only row of the table is the one that save wrote
UntitledSavedUnderPath ==
    /\ ev.type = "save_done"
    /\ ev.call.fileName = Untitled
    /\ ev.call.dirtyAtInvoke
    /\ shadow_files = {Row(ev.call.filePath, ev.call.content, FALSE)}

\* C28: when the save-path prompt of an untitled document returns no path,
\* no file write follows, and the step changes neither content,
\* savedContent, isDirty and fileName nor the disk, the table or the writes
\* pending.
CancelAbortsSave ==
    [][ ( /\ pc = "save_select" /\ pc' # "save_select"
          /\ ev'.type # "restart"
          /\ call'.filePath \notin DialogPaths )
        => /\ pc' # "save_file"
           /\ UNCHANGED <<react, store, timers, inflight>> ]_vars

\* the prompt of a dirty untitled document has been cancelled
SaveCancelledWhileDirty ==
    /\ ev.type = "save_aborted"
    /\ ev.call.fileName = Untitled
    /\ fileName = Untitled
    /\ isDirty
    /\ pc = "idle"

\* the continuation of a call into Go that has failed is run
FailedCallReturns ==
    /\ pc' # pc
    /\ ev'.type # "restart"
    /\ \/ pc \in {"save_file_ret", "save_shadow_ret", "open_read_ret",
                  "clear_ret", "dlg_read_ret"} /\ ~call.ok
       \/ pc = "open_shadow_ret" /\ ~call.shadow.ok

\* C29 as claimed: a failed file read, file write, shadow read, shadow write
\* or shadow clear never changes the content.
ErrorsKeepContent ==
    [][ FailedCallReturns => content' = content ]_vars

\* C29 as amended: none of these failures changes the content, except that a
\* failed shadow read lets the open go on with the text read from disk.
ErrorsKeepContentOrFallBack ==
    [][ FailedCallReturns
        => IF pc = "open_shadow_ret"
           THEN content' = call.diskContent
           ELSE content' = content ]_vars

\* a save has failed on a document with unsaved edits, which it still has
SaveFailedWhileDirty ==
    /\ ev.type = "save_failed"
    /\ ~ev.call.ok
    /\ isDirty
    /\ content = ev.call.content
    /\ content # savedContent

\* the shadow writes in flight for a path: those the timers sent and the
\* one save awaits
ShadowWritesInFlight(p) ==
    Cardinality({w \in inflight : w.path = p})
    + (IF pc = "save_shadow" /\ call.filePath = p THEN 1 ELSE 0)

\* C30: at most one shadow write is in flight for a path at any time.
OneShadowWriteInFlight ==
    \A p \in Keys : ShadowWritesInFlight(p) <= 1

----------------------------------------------------------------------------
(* Properties of the document controller: failed and abandoned saves, keys *)

\* C31: when the disk write of a save fails, the save sends no clean shadow
\* write, and savedContent, the dirty flag and the shadow records are left as
\* they were.
FailedWriteLeavesDirty ==
    [][(pc = "save_file_ret" /\ ~call.ok /\ pc' # pc /\ ev'.type # "restart")
         => /\ pc' # "save_shadow"
            /\ savedContent' = savedContent
            /\ isDirty' = isDirty
            /\ shadow_files' = shadow_files]_vars

DiskWriteFailedWhileDirty ==
    /\ ev.type = "save_failed"
    /\ pc = "idle"
    /\ disk[ev.call.filePath] # ev.call.content
    /\ isDirty
    /\ content = ev.call.content
    /\ \A r \in shadow_files : r.path = ev.call.filePath => r.is_dirty

\* C32: after Save in the unsaved-changes dialog the pending file is opened
\* only when the content of the save has been written to disk; a save that
\* was cancelled or whose write failed is not followed by the open.
PendingOpenOnlyAfterSave ==
    [][(call.origin = "dialog_save" /\ pc # "open_read" /\ pc' = "open_read")
         => /\ call.filePath \in Keys
            /\ disk[call.filePath] = call.content]_vars

\* C33: the key of every shadow write, pending, in flight or stored, is the
\* key under which an open of that file looks its record up, also for a file
\* that was opened by a bare name resolved under the content directory.
WriteKeyIsLookupKey ==
    /\ \A t \in timers \cup inflight : t.path = ResolvePath(t.path)
    /\ \A r \in shadow_files : r.path = ResolvePath(r.path)

\* C34: once a discard (or discard-and-open) has cleared the shadow record of
\* a path, and no edit has been made since the discard began, no shadow write
\* puts a dirty record for that path back, whenever the timer fires.
ClearedRecordStaysCleared ==
    [][( /\ call.origin \in {"discard", "dialog_discard"}
         /\ pc \notin {"idle", "clear"}
         /\ ~call.edited
         /\ ~HasRow(shadow_files, call.fileName) )
        => ~\E r \in shadow_files' :
               r.path = call.fileName /\ r.is_dirty]_vars

\* C35: a debounced shadow write is armed for the active path with the
\* canonical content, and its flag says whether that content differs from
\* the file of that path on disk; this holds at every commit of an open.
\* (Between the disk write of a save and its setSavedContent the file is
\* ahead of the baseline, and those steps are left out.)
DebouncedWriteIsTruthful ==
    [][pc \notin {"save_file_ret", "save_shadow", "save_shadow_ret"}
         => \A t \in timers' \ timers :
               /\ t.path = fileName'
               /\ t.content = content'
               /\ t.isDirty = (t.content # disk[ResolvePath(t.path)])]_vars

----------------------------------------------------------------------------
(* Properties of the integrity guard: the backup slot, calls during restore *)

\* C36: while the corruption marker exists no step changes a backup that exists,
\* whatever number of process starts there is, so that RestoreBackup still
\* finds the store that was backed up before the corruption was detected.
BackupKeptWhileMarked ==
    [][(exists(files, CorruptPath) /\ exists(files, BackupPath))
         => files'[BackupPath] = files[BackupPath]]_vars

\* C37: no store call of the editing side runs between the moment
\* RestoreBackup has closed the connection and the moment it has opened it
\* again.
NoStoreCallDuringRestore ==
    [][(readPc = "pending" /\ readPc' = "done")
         => checkPc # "restore_sleep"]_vars

----------------------------------------------------------------------------
(* Properties of the document controller: the debounced write in the end *)

\* C38: when the edits stop while a real path stays active, the shadow
\* record of that path at some time holds the canonical content and the
\* dirty flag of that moment, provided timers and calls are not held up.
QuietDocumentIsShadowed ==
    \A c \in Contents, d \in BOOLEAN :
        <>[](fileName = AbsPath /\ content = c /\ isDirty = d)
            => <>(Row(AbsPath, c, d) \in shadow_files)

----------------------------------------------------------------------------
(* Properties of the outline *)

\* C39: stringifyBlocks(parseBlocks(c)) is c for every text c, the empty
\* text, a text that starts with a header and a text that ends in newlines
\* included.
BlocksRoundTrip == stringifyBlocks(parseBlocks(blockText)) = blockText

\* a text of several blocks that starts with a header and ends in a newline
\* has come out of a move
HeaderFirstTextMoved ==
    /\ firstMove # NoMove
    /\ ~threw
    /\ blockText # given
    /\ Len(parseBlocks(blockText)) > 1
    /\ blockText[1] = "="
    /\ blockText[Len(blockText)] = "\n"
    /\ stringifyBlocks(parseBlocks(blockText)) = blockText

\* C40: moveBlock returns the text as it is when the target index is
\* outside the block list, and moving block i down and then block i+1 up
\* gives the text back whenever i and i+1 are indexes of its blocks.
MoveDownThenUpRestores ==
    LET n == Len(parseBlocks(given))
        to == IF firstMove.direction = "up" THEN firstMove.index - 1
              ELSE firstMove.index + 1
    IN  /\ ( /\ firstMove # NoMove
             /\ secondMove = NoMove
             /\ to < 0 \/ to >= n )
           => (~threw /\ blockText = given)
        /\ ( /\ firstMove.direction = "down"
             /\ firstMove.index >= 0
             /\ firstMove.index + 1 < n
             /\ secondMove = Move(firstMove.index + 1, "up") )
           => (~threw /\ blockText = given)

============================================================================
